---- MODULE Spec2Model ----
(***************************************************************************)
(* FSDPVLLMShardingManager (verl/workers/sharding_manager/fsdp_vllm.py).   *)
(*                                                                         *)
(* Two state machines share this module.                                   *)
(*   Spec      one manager on one rank: construction, the statements of    *)
(*             __enter__ and __exit__ one at a time, the with-block that   *)
(*             surrounds them, training steps and generation draws.        *)
(*   SpecData  the ranks of a job calling preprocess_data and              *)
(*             postprocess_data, with the two all-gathers of preprocess    *)
(*             as collectives over the tensor-parallel group.              *)
(***************************************************************************)
EXTENDS Integers, Sequences, FiniteSets

VARIABLES
    phase,                \* where the rank is: new, train, enter, gen, exit, raised
    ip,                   \* index of the next statement of __enter__ / __exit__
    device_mesh,          \* self.device_mesh: None, or <<dp local rank>>
    cuda_rng,             \* the accelerator's live RNG state <<seed, offset>>
    torch_random_states,  \* self.torch_random_states
    gen_random_states,    \* self.gen_random_states
    actor_weights,        \* the local of __enter__: None or the weight mapping
    engine_state,         \* inference engine: asleep / awake
    engine_weights,       \* the mapping the engine's model last loaded, or None
    load_calls,           \* mappings handed to load_dtensor_weights by the current __enter__
    allocator_cache,      \* freed blocks the caching allocator still holds
    module_mode,          \* training module: train / eval
    module_version,       \* number of optimizer updates applied to the module
    exc,                  \* exception raised by the with-body and handed to __exit__
    raised,               \* None, or <<where, what>> of the exception that reached the caller
    log,                  \* calls made by the __enter__ / __exit__ in progress
    cycles,               \* completed enter/exit pairs
    zero_cycle_rng,       \* the live state the rank would have with no cycle at all
    pre_call,             \* RNG triple as it was when the current call started
    gen_draws,            \* draws made inside the scopes so far
    sleep_level,          \* level of the last sleep this manager asked for, 0 if none
    data,                 \* per rank: the DataProto passed to preprocess_data
    dpc,                  \* per rank: position inside preprocess / postprocess
    prev_device,          \* per rank: the local prev_device of preprocess_data
    tensor_gather,        \* contributions to the tensor all-gather, per rank
    object_gather,        \* contributions to the object all-gather, per rank
    original,             \* per rank: the batch as it was passed in
    tp_size,              \* tensor-parallel world size T
    world_size,           \* number of ranks of the job
    rows                  \* rows N every rank passes in

mgrVars == <<phase, ip, device_mesh, cuda_rng, torch_random_states,
             gen_random_states, actor_weights, engine_state, engine_weights,
             load_calls, allocator_cache, module_mode, module_version, exc,
             raised, log, cycles, zero_cycle_rng, pre_call, gen_draws,
             sleep_level>>

rngVars == <<cuda_rng, torch_random_states, gen_random_states>>

memVars == <<actor_weights, engine_state, engine_weights, load_calls,
             allocator_cache>>

dataVars == <<data, dpc, prev_device, tensor_gather, object_gather, original, tp_size,
              world_size, rows>>

vars == <<phase, ip, device_mesh, cuda_rng, torch_random_states,
          gen_random_states, actor_weights, engine_state, engine_weights,
          load_calls, allocator_cache, module_mode, module_version, exc,
          raised, log, cycles, zero_cycle_rng, pre_call, gen_draws,
          sleep_level, data, dpc,
          prev_device, tensor_gather, object_gather, original, tp_size,
          world_size, rows>>

\* ------------------------------------------------------------------ bounds
MaxOffset == 3
MaxCycles == 2
MaxVersion == 1
MaxDpRank == 3
MaxRows == 2
MaxWorld == 4

\* --------------------------------------------------------------- constants
None == <<>>
GenSeedOffset == 1000

\* device memory, in units of one shard of the weights
ShardCopy == 1
FullCopy == 2

TrainSeeds == {7, GenSeedOffset}
ParamNames == {"embed", "lm_head"}

\* ----------------------------------------------------- accelerator RNG API
\* torch.cuda.manual_seed(s): the generator restarts at offset 0 of seed s.
ManualSeed(s) == <<s, 0>>

\* one random draw consumes one step of the generator's stream
Advance(st) == <<st[1], st[2] + 1>>

\* torch.cuda.set_rng_state rejects anything that is not a state tensor
SetRngStateRaises(st) == st = None

\* ------------------------------------------------------------ construction
GenDpRank(mesh) == mesh[1]

\* line 56: torch.cuda.manual_seed(gen_dp_rank + 1000)
GenSeedSameForAll(mesh) == GenSeedOffset

GenSeed(mesh) == GenDpRank(mesh) + GenSeedOffset

\* lines 54-60: the generation snapshot taken at construction
InitGenStatesFromLive(mesh) ==
    IF mesh # None THEN cuda_rng ELSE None

InitGenStates(mesh) ==
    IF mesh # None THEN ManualSeed(GenSeed(mesh)) ELSE None

MgrInit ==
    /\ phase = "new"
    /\ ip = 0
    /\ device_mesh \in {None} \cup {<<r>> : r \in 0..MaxDpRank}
    /\ cuda_rng \in {<<s, o>> : s \in TrainSeeds, o \in 0..1}
    /\ torch_random_states = None
    /\ gen_random_states = None
    /\ actor_weights = None
    /\ engine_state = "asleep"
    /\ engine_weights = None
    /\ load_calls = <<>>
    /\ allocator_cache = 0
    /\ module_mode \in {"train", "eval"}
    /\ module_version = 0
    /\ exc = "none"
    /\ raised = None
    /\ log = <<>>
    /\ cycles = 0
    /\ zero_cycle_rng = cuda_rng
    /\ pre_call = <<cuda_rng, None, None>>
    /\ gen_draws = 0
    /\ sleep_level = 0

DataIdle ==
    /\ data = <<>>
    /\ dpc = <<>>
    /\ prev_device = <<>>
    /\ tensor_gather = <<>>
    /\ object_gather = <<>>
    /\ original = <<>>
    /\ tp_size = 1
    /\ world_size = 0
    /\ rows = 0

\* __init__, lines 52-60: the live state is saved; with a mesh the generator
\* is reseeded from the dp local rank, that state is kept as the generation
\* state, and the saved state is put back.
ConstructLive(mesh, live) ==
    LET saved == live
        seeded == IF mesh # None THEN ManualSeed(GenSeed(mesh)) ELSE live
    IN  IF mesh # None THEN saved ELSE seeded

Construct ==
    /\ phase = "new"
    /\ torch_random_states' = cuda_rng
    /\ gen_random_states' = InitGenStates(device_mesh)
    /\ cuda_rng' = ConstructLive(device_mesh, cuda_rng)
    /\ phase' = "train"
    /\ pre_call' = <<cuda_rng', torch_random_states', gen_random_states'>>
    /\ UNCHANGED <<ip, device_mesh, module_mode, module_version, exc, raised,
                   log, cycles, zero_cycle_rng>>
    /\ UNCHANGED memVars
    /\ UNCHANGED gen_draws
    /\ UNCHANGED sleep_level
    /\ UNCHANGED dataVars

\* ------------------------------------------------------------- __enter__
\* The statements of __enter__ in program order (lines 64, 67, 68, 73, 74,
\* 77-79) and the return that follows the last of them.
EnterStepsRngFirst ==
    <<"rng", "state_dict", "wake_up", "load_dtensor_weights", "del",
      "empty_cache", "return">>

EnterStepsLoadAfterDel ==
    <<"state_dict", "wake_up", "del", "load_dtensor_weights", "empty_cache",
      "rng", "return">>

EnterStepsCacheBeforeDel ==
    <<"state_dict", "wake_up", "load_dtensor_weights", "empty_cache", "del",
      "rng", "return">>

EnterSteps ==
    <<"state_dict", "wake_up", "load_dtensor_weights", "del", "empty_cache",
      "rng", "return">>

\* the calls of __enter__ into the module, the engine and the allocator
EnterMayRaise ==
    {"state_dict", "wake_up", "load_dtensor_weights", "empty_cache"}

\* self.module.state_dict(): every parameter at the module's current value
StateDict(version) == [n \in ParamNames |-> version]

AtEnter(op) == phase = "enter" /\ EnterSteps[ip] = op

\* falls through to the next statement
EnterAdvance == phase' = "enter" /\ ip' = ip + 1

\* `with sharding_manager:` calls __enter__ (no exception is pending)
BeginEnter ==
    /\ phase = "train"
    /\ cycles < MaxCycles
    /\ phase' = "enter"
    /\ ip' = 1
    /\ log' = <<>>
    /\ load_calls' = <<>>
    /\ exc' = "none"
    /\ pre_call' = <<cuda_rng, torch_random_states, gen_random_states>>
    /\ UNCHANGED <<device_mesh, actor_weights, engine_state, engine_weights,
                   allocator_cache, module_mode, module_version, raised,
                   cycles, zero_cycle_rng>>
    /\ UNCHANGED rngVars
    /\ UNCHANGED gen_draws
    /\ UNCHANGED sleep_level
    /\ UNCHANGED dataVars

\* line 64: actor_weights = self.module.state_dict()
EnterStateDict ==
    /\ AtEnter("state_dict")
    /\ actor_weights' = StateDict(module_version)
    /\ log' = Append(log, "state_dict")
    /\ EnterAdvance
    /\ UNCHANGED <<device_mesh, engine_state, engine_weights, load_calls,
                   allocator_cache, module_mode, module_version, exc, raised,
                   cycles, zero_cycle_rng, pre_call>>
    /\ UNCHANGED rngVars
    /\ UNCHANGED gen_draws
    /\ UNCHANGED sleep_level
    /\ UNCHANGED dataVars

\* line 67: self.inference_engine.wake_up()
EnterWakeUp ==
    /\ AtEnter("wake_up")
    /\ engine_state' = "awake"
    /\ log' = Append(log, "wake_up")
    /\ EnterAdvance
    /\ UNCHANGED <<device_mesh, actor_weights, engine_weights, load_calls,
                   allocator_cache, module_mode, module_version, exc, raised,
                   cycles, zero_cycle_rng, pre_call>>
    /\ UNCHANGED rngVars
    /\ UNCHANGED gen_draws
    /\ UNCHANGED sleep_level
    /\ UNCHANGED dataVars

\* lines 68-70: load_dtensor_weights(actor_weights, <the engine's model>)
EnterLoadDropsLmHead ==
    /\ AtEnter("load_dtensor_weights")
    /\ engine_weights' = [n \in ParamNames \ {"lm_head"} |-> actor_weights[n]]
    /\ load_calls' = Append(load_calls, engine_weights')
    /\ log' = Append(log, "load_dtensor_weights")
    /\ EnterAdvance
    /\ UNCHANGED <<device_mesh, actor_weights, engine_state, allocator_cache,
                   module_mode, module_version, exc, raised, cycles,
                   zero_cycle_rng, pre_call>>
    /\ UNCHANGED rngVars
    /\ UNCHANGED gen_draws
    /\ UNCHANGED sleep_level
    /\ UNCHANGED dataVars

EnterLoad ==
    /\ AtEnter("load_dtensor_weights")
    /\ engine_weights' = actor_weights
    /\ load_calls' = Append(load_calls, actor_weights)
    /\ log' = Append(log, "load_dtensor_weights")
    /\ EnterAdvance
    /\ UNCHANGED <<device_mesh, actor_weights, engine_state, allocator_cache,
                   module_mode, module_version, exc, raised, cycles,
                   zero_cycle_rng, pre_call>>
    /\ UNCHANGED rngVars
    /\ UNCHANGED gen_draws
    /\ UNCHANGED sleep_level
    /\ UNCHANGED dataVars

\* line 73: del actor_weights; the blocks go back to the caching allocator
EnterDel ==
    /\ AtEnter("del")
    /\ actor_weights' = None
    /\ allocator_cache' =
           allocator_cache + (IF actor_weights # None THEN FullCopy ELSE 0)
    /\ log' = Append(log, "del")
    /\ EnterAdvance
    /\ UNCHANGED <<device_mesh, engine_state, engine_weights, load_calls,
                   module_mode, module_version, exc, raised, cycles,
                   zero_cycle_rng, pre_call>>
    /\ UNCHANGED rngVars
    /\ UNCHANGED gen_draws
    /\ UNCHANGED sleep_level
    /\ UNCHANGED dataVars

\* line 74: torch.cuda.empty_cache()
EnterEmptyCache ==
    /\ AtEnter("empty_cache")
    /\ allocator_cache' = 0
    /\ log' = Append(log, "empty_cache")
    /\ EnterAdvance
    /\ UNCHANGED <<device_mesh, actor_weights, engine_state, engine_weights,
                   load_calls, module_mode, module_version, exc, raised,
                   cycles, zero_cycle_rng, pre_call>>
    /\ UNCHANGED rngVars
    /\ UNCHANGED gen_draws
    /\ UNCHANGED sleep_level
    /\ UNCHANGED dataVars

\* line 77: if self.device_mesh is not None
EnterSwitchesRngAlways(mesh) == TRUE

EnterSwitchesRng(mesh) == mesh # None

\* lines 77-79: save the training state, make the generation state live
EnterRng ==
    /\ AtEnter("rng")
    /\ IF EnterSwitchesRng(device_mesh)
       THEN /\ torch_random_states' = cuda_rng
            /\ IF SetRngStateRaises(gen_random_states)
               THEN /\ phase' = "raised"
                    /\ ip' = 0
                    /\ raised' = <<"__enter__", "set_rng_state">>
                    /\ log' = Append(log, "get_rng_state")
                    /\ UNCHANGED <<cuda_rng, gen_random_states>>
               ELSE /\ cuda_rng' = gen_random_states
                    /\ log' = log \o <<"get_rng_state", "set_rng_state">>
                    /\ EnterAdvance
                    /\ UNCHANGED <<gen_random_states, raised>>
       ELSE /\ EnterAdvance
            /\ UNCHANGED <<log, raised>>
            /\ UNCHANGED rngVars
    /\ UNCHANGED <<device_mesh, module_mode, module_version, exc, cycles,
                   zero_cycle_rng, pre_call>>
    /\ UNCHANGED memVars
    /\ UNCHANGED gen_draws
    /\ UNCHANGED sleep_level
    /\ UNCHANGED dataVars

\* __enter__ returns into the with-body; its frame goes away, and a local
\* that still held the mapping gives its blocks back to the caching allocator
EnterReturn ==
    /\ AtEnter("return")
    /\ phase' = "gen"
    /\ ip' = 0
    /\ actor_weights' = None
    /\ allocator_cache' =
           allocator_cache + (IF actor_weights # None THEN FullCopy ELSE 0)
    /\ UNCHANGED <<device_mesh, engine_state, engine_weights, load_calls,
                   module_mode, module_version, exc, raised, log, cycles,
                   zero_cycle_rng, pre_call>>
    /\ UNCHANGED rngVars
    /\ UNCHANGED gen_draws
    /\ UNCHANGED sleep_level
    /\ UNCHANGED dataVars

\* a call of __enter__ raises: nothing catches it, the statements after it
\* are skipped and the with-statement does not call __exit__
EnterRaise ==
    /\ phase = "enter"
    /\ EnterSteps[ip] \in EnterMayRaise
    /\ phase' = "raised"
    /\ raised' = <<"__enter__", EnterSteps[ip]>>
    /\ ip' = 0
    /\ UNCHANGED <<device_mesh, module_mode, module_version, exc, log, cycles,
                   zero_cycle_rng, pre_call>>
    /\ UNCHANGED rngVars
    /\ UNCHANGED memVars
    /\ UNCHANGED gen_draws
    /\ UNCHANGED sleep_level
    /\ UNCHANGED dataVars

\* ------------------------------------------------------------ the with-body
\* a sampling call inside the scope consumes the live generator
GenDraw ==
    /\ phase = "gen"
    /\ cuda_rng[2] < MaxOffset
    /\ cuda_rng' = Advance(cuda_rng)
    /\ gen_draws' = gen_draws + 1
    /\ UNCHANGED <<phase, ip, device_mesh, torch_random_states,
                   gen_random_states, module_mode, module_version, exc, raised,
                   log, cycles, zero_cycle_rng, pre_call>>
    /\ UNCHANGED memVars
    /\ UNCHANGED sleep_level
    /\ UNCHANGED dataVars

\* the caller puts the module in eval mode while it generates
ModuleEval ==
    /\ phase = "gen"
    /\ module_mode = "train"
    /\ module_mode' = "eval"
    /\ UNCHANGED <<phase, ip, device_mesh, module_version, exc, raised, log,
                   cycles, zero_cycle_rng, pre_call>>
    /\ UNCHANGED rngVars
    /\ UNCHANGED memVars
    /\ UNCHANGED gen_draws
    /\ UNCHANGED sleep_level
    /\ UNCHANGED dataVars

\* the with-body ends, normally or with an exception; either way the
\* with-statement calls __exit__(exc_type, exc_value, traceback)
BeginExit(e) ==
    /\ phase = "gen"
    /\ phase' = "exit"
    /\ ip' = 1
    /\ exc' = e
    /\ log' = <<>>
    /\ pre_call' = <<cuda_rng, torch_random_states, gen_random_states>>
    /\ UNCHANGED <<device_mesh, module_mode, module_version, raised, cycles,
                   zero_cycle_rng>>
    /\ UNCHANGED rngVars
    /\ UNCHANGED memVars
    /\ UNCHANGED gen_draws
    /\ UNCHANGED sleep_level
    /\ UNCHANGED dataVars

BodyReturn == BeginExit("none")

BodyRaise == BeginExit("body")

\* --------------------------------------------------- training between scopes
\* a training-mode draw (dropout, shuffling) outside every scope
TrainDraw ==
    /\ phase = "train"
    /\ cuda_rng[2] < MaxOffset
    /\ cuda_rng' = Advance(cuda_rng)
    /\ zero_cycle_rng' = Advance(zero_cycle_rng)
    /\ UNCHANGED <<phase, ip, device_mesh, torch_random_states,
                   gen_random_states, module_mode, module_version, exc, raised,
                   log, cycles, pre_call>>
    /\ UNCHANGED memVars
    /\ UNCHANGED gen_draws
    /\ UNCHANGED sleep_level
    /\ UNCHANGED dataVars

\* an optimizer update changes what state_dict() will return
OptimizerStep ==
    /\ phase = "train"
    /\ module_version < MaxVersion
    /\ module_version' = module_version + 1
    /\ UNCHANGED <<phase, ip, device_mesh, module_mode, exc, raised, log,
                   cycles, zero_cycle_rng, pre_call>>
    /\ UNCHANGED rngVars
    /\ UNCHANGED memVars
    /\ UNCHANGED gen_draws
    /\ UNCHANGED sleep_level
    /\ UNCHANGED dataVars

\* -------------------------------------------------------------- __exit__
\* The statements of __exit__ in program order (lines 83, 86, 87, 90-92)
\* and the return that follows the last of them.
ExitSteps == <<"sleep", "train", "empty_cache", "rng", "return">>

ExitMayRaise == {"sleep", "train", "empty_cache"}

\* __exit__ has no return statement: it returns None, which is false
ExitReturnValueTrue == TRUE

ExitReturnValue == FALSE

AtExit(op) == phase = "exit" /\ ExitSteps[ip] = op

\* falls through to the next statement
ExitAdvance ==
    /\ phase' = "exit"
    /\ ip' = ip + 1
    /\ UNCHANGED <<raised, cycles>>

\* line 83: the level passed to sleep()
SleepLevelDiscardsWeights == 2

SleepLevel == 1

\* line 83: self.inference_engine.sleep(level=1)
ExitSleep ==
    /\ AtExit("sleep")
    /\ engine_state' = "asleep"
    /\ sleep_level' = SleepLevel
    /\ log' = Append(log, "sleep")
    /\ ExitAdvance
    /\ UNCHANGED <<device_mesh, actor_weights, engine_weights, load_calls,
                   allocator_cache, module_mode, module_version, exc,
                   zero_cycle_rng, pre_call>>
    /\ UNCHANGED rngVars
    /\ UNCHANGED gen_draws
    /\ UNCHANGED dataVars

\* line 86: self.module.train()
ExitTrain ==
    /\ AtExit("train")
    /\ module_mode' = "train"
    /\ log' = Append(log, "train")
    /\ ExitAdvance
    /\ UNCHANGED <<device_mesh, module_version, exc, zero_cycle_rng, pre_call>>
    /\ UNCHANGED rngVars
    /\ UNCHANGED memVars
    /\ UNCHANGED gen_draws
    /\ UNCHANGED sleep_level
    /\ UNCHANGED dataVars

\* line 87: torch.cuda.empty_cache()
ExitEmptyCache ==
    /\ AtExit("empty_cache")
    /\ allocator_cache' = 0
    /\ log' = Append(log, "empty_cache")
    /\ ExitAdvance
    /\ UNCHANGED <<device_mesh, actor_weights, engine_state, engine_weights,
                   load_calls, module_mode, module_version, exc,
                   zero_cycle_rng, pre_call>>
    /\ UNCHANGED rngVars
    /\ UNCHANGED gen_draws
    /\ UNCHANGED sleep_level
    /\ UNCHANGED dataVars

\* line 90: if self.device_mesh is not None
ExitSwitchesRngNever(mesh) == FALSE

ExitSwitchesRng(mesh) == mesh # None

\* lines 90-92: save the generation state, make the training state live
ExitRng ==
    /\ AtExit("rng")
    /\ IF ExitSwitchesRng(device_mesh)
       THEN /\ gen_random_states' = cuda_rng
            /\ IF SetRngStateRaises(torch_random_states)
               THEN /\ phase' = "raised"
                    /\ ip' = 0
                    /\ raised' = <<"__exit__", "set_rng_state">>
                    /\ log' = Append(log, "get_rng_state")
                    /\ UNCHANGED <<cuda_rng, torch_random_states, cycles>>
               ELSE /\ cuda_rng' = torch_random_states
                    /\ log' = log \o <<"get_rng_state", "set_rng_state">>
                    /\ ExitAdvance
                    /\ UNCHANGED torch_random_states
       ELSE /\ ExitAdvance
            /\ UNCHANGED log
            /\ UNCHANGED rngVars
    /\ UNCHANGED <<device_mesh, module_mode, module_version, exc,
                   zero_cycle_rng, pre_call>>
    /\ UNCHANGED memVars
    /\ UNCHANGED gen_draws
    /\ UNCHANGED sleep_level
    /\ UNCHANGED dataVars

\* __exit__ returns to the with-statement, which re-raises the body's
\* exception unless __exit__ returned a true value
ExitReturn ==
    /\ AtExit("return")
    /\ ip' = 0
    /\ IF exc # "none" /\ ~ExitReturnValue
       THEN /\ phase' = "raised"
            /\ raised' = <<"with-body", exc>>
            /\ UNCHANGED cycles
       ELSE /\ phase' = "train"
            /\ cycles' = cycles + 1
            /\ UNCHANGED raised
    /\ UNCHANGED <<device_mesh, module_mode, module_version, exc, log,
                   zero_cycle_rng, pre_call>>
    /\ UNCHANGED rngVars
    /\ UNCHANGED memVars
    /\ UNCHANGED gen_draws
    /\ UNCHANGED sleep_level
    /\ UNCHANGED dataVars

\* a call of __exit__ raises: nothing catches it (there is no try/finally
\* in __exit__), so the statements after it are skipped
ExitRaise ==
    /\ phase = "exit"
    /\ ExitSteps[ip] \in ExitMayRaise
    /\ phase' = "raised"
    /\ raised' = <<"__exit__", ExitSteps[ip]>>
    /\ ip' = 0
    /\ UNCHANGED <<device_mesh, module_mode, module_version, exc, log, cycles,
                   zero_cycle_rng, pre_call>>
    /\ UNCHANGED rngVars
    /\ UNCHANGED memVars
    /\ UNCHANGED gen_draws
    /\ UNCHANGED sleep_level
    /\ UNCHANGED dataVars

\* ------------------------------------------------- data redistribution
TpSizes == {1, 2, 4}
TensorKeys == {"input_ids", "attention_mask"}
NonTensorKeys == {"uid"}

Ranks == 0..(world_size - 1)

\* row j of field k of the batch rank r passes in
Row(k, r, j) == <<k, r, j>>

InputBatch(r, n, dev) ==
    [batch |-> [k \in TensorKeys |-> [j \in 1..n |-> Row(k, r, j)]],
     non_tensor_batch |-> [k \in NonTensorKeys |-> [j \in 1..n |-> Row(k, r, j)]],
     device |-> dev]

\* concatenation along dim 0 of a list of arrays
RECURSIVE Concatenate(_)
Concatenate(arrays) ==
    IF arrays = <<>> THEN <<>>
    ELSE Head(arrays) \o Concatenate(Tail(arrays))

\* vllm_ps.get_tensor_model_parallel_group(): consecutive global ranks form
\* a group, listed in group-rank order
TpGroup(r) == [i \in 1..tp_size |-> (r \div tp_size) * tp_size + (i - 1)]

GroupMembers(r) == {TpGroup(r)[i] : i \in 1..tp_size}

\* VF.allgather_dict_tensors(batch, size, group, dim=0): every key is
\* all-gathered and the pieces concatenated in group-rank order
AllGatherDictTensors(pieces) ==
    [k \in DOMAIN pieces[1] |->
        Concatenate([i \in 1..Len(pieces) |-> pieces[i][k]])]

\* lines 105-107: {k: np.concatenate([d[k] for d in all_non_tensor_batch])
\*                 for k in data.non_tensor_batch}
ConcatNonTensorOwnOnly(own, all_non_tensor_batch) == own

ConcatNonTensor(own, all_non_tensor_batch) ==
    [k \in DOMAIN own |->
        Concatenate([i \in 1..Len(all_non_tensor_batch) |->
                        all_non_tensor_batch[i][k]])]

\* np.array_split / tensor chunk of one field into equal pieces
Piece(arr, chunks, i) ==
    LET sz == Len(arr) \div chunks
    IN  SubSeq(arr, (i - 1) * sz + 1, i * sz)

\* DataProto.chunk(chunks): the list of `chunks` equal contiguous pieces
Chunk(d, chunks) ==
    [i \in 1..chunks |->
        [batch |-> [k \in DOMAIN d.batch |-> Piece(d.batch[k], chunks, i)],
         non_tensor_batch |->
            [k \in DOMAIN d.non_tensor_batch |->
                Piece(d.non_tensor_batch[k], chunks, i)],
         device |-> d.device]]

\* lines 111-116
PostprocessDataFirstChunk(d, dp_rank, T) ==
    IF T > 1 THEN Chunk(d, T)[1] ELSE d

PostprocessDataNeverChunks(d, dp_rank, T) == d

PostprocessData(d, dp_rank, T) ==
    IF T > 1 THEN Chunk(d, T)[(dp_rank % T) + 1] ELSE d

DataInit ==
    /\ tp_size \in TpSizes
    /\ world_size \in {w \in 1..MaxWorld : w % tp_size = 0}
    /\ rows \in 1..MaxRows
    /\ \E dev \in {"cpu", "cuda"} :
          data = [r \in Ranks |-> InputBatch(r, rows, dev)]
    /\ original = data
    /\ dpc = [r \in Ranks |-> "idle"]
    /\ prev_device = [r \in Ranks |-> "unset"]
    /\ tensor_gather = [r \in Ranks |-> None]
    /\ object_gather = [r \in Ranks |-> None]

\* the manager of a rank that is inside its scope, where the redistribution
\* calls are made
MgrGenerating ==
    /\ phase = "gen"
    /\ ip = 0
    /\ device_mesh = None
    /\ cuda_rng = <<7, 0>>
    /\ torch_random_states = <<7, 0>>
    /\ gen_random_states = None
    /\ actor_weights = None
    /\ engine_state = "awake"
    /\ engine_weights = StateDict(0)
    /\ load_calls = <<StateDict(0)>>
    /\ allocator_cache = 0
    /\ module_mode = "train"
    /\ module_version = 0
    /\ exc = "none"
    /\ raised = None
    /\ log = <<"state_dict", "wake_up", "load_dtensor_weights", "del",
               "empty_cache">>
    /\ cycles = 0
    /\ zero_cycle_rng = <<7, 0>>
    /\ pre_call = <<<<7, 0>>, <<7, 0>>, None>>
    /\ gen_draws = 0
    /\ sleep_level = 0

\* lines 95-99: the group is looked up, the device remembered and the
\* tensors moved to the accelerator
PreprocessBegin(r) ==
    /\ dpc[r] = "idle"
    /\ prev_device' = [prev_device EXCEPT ![r] = data[r].device]
    /\ data' = [data EXCEPT ![r].device = "cuda"]
    /\ dpc' = [dpc EXCEPT ![r] = "allgather_tensors"]
    /\ UNCHANGED <<tensor_gather, object_gather, original, tp_size,
                   world_size, rows>>
    /\ UNCHANGED mgrVars

\* line 100: the rank joins the tensor all-gather with its own batch
TensorGatherJoin(r) ==
    /\ dpc[r] = "allgather_tensors"
    /\ tensor_gather' = [tensor_gather EXCEPT ![r] = data[r].batch]
    /\ dpc' = [dpc EXCEPT ![r] = "allgather_tensors_wait"]
    /\ UNCHANGED <<data, prev_device, object_gather, original, tp_size,
                   world_size, rows>>
    /\ UNCHANGED mgrVars

\* lines 100-101: the collective completes once every rank of the group
\* has joined; data.batch is replaced by the gathered tensors and moved
\* back to the device it came from
TensorGatherDone(r) ==
    /\ dpc[r] = "allgather_tensors_wait"
    /\ \A q \in GroupMembers(r) : tensor_gather[q] # None
    /\ data' = [data EXCEPT
                   ![r].batch = AllGatherDictTensors(
                       [i \in 1..tp_size |-> tensor_gather[TpGroup(r)[i]]]),
                   ![r].device = prev_device[r]]
    /\ dpc' = [dpc EXCEPT ![r] = "allgather_object"]
    /\ UNCHANGED <<prev_device, tensor_gather, object_gather, original,
                   tp_size, world_size, rows>>
    /\ UNCHANGED mgrVars

\* lines 103-104: the rank joins the object all-gather
ObjectGatherJoinFirstRankOnly(r) ==
    /\ dpc[r] = "allgather_object"
    /\ object_gather' =
          IF r % tp_size = 0
          THEN [object_gather EXCEPT ![r] = data[r].non_tensor_batch]
          ELSE object_gather
    /\ dpc' = [dpc EXCEPT ![r] = "allgather_object_wait"]
    /\ UNCHANGED <<data, prev_device, tensor_gather, original, tp_size,
                   world_size, rows>>
    /\ UNCHANGED mgrVars

ObjectGatherJoin(r) ==
    /\ dpc[r] = "allgather_object"
    /\ object_gather' = [object_gather EXCEPT ![r] = data[r].non_tensor_batch]
    /\ dpc' = [dpc EXCEPT ![r] = "allgather_object_wait"]
    /\ UNCHANGED <<data, prev_device, tensor_gather, original, tp_size,
                   world_size, rows>>
    /\ UNCHANGED mgrVars

\* lines 104-108: the collective completes, the gathered fields are
\* concatenated into data.non_tensor_batch and data is returned
ObjectGatherDone(r) ==
    /\ dpc[r] = "allgather_object_wait"
    /\ \A q \in GroupMembers(r) : object_gather[q] # None
    /\ data' = [data EXCEPT
                   ![r].non_tensor_batch = ConcatNonTensor(
                       data[r].non_tensor_batch,
                       [i \in 1..tp_size |-> object_gather[TpGroup(r)[i]]])]
    /\ dpc' = [dpc EXCEPT ![r] = "preprocessed"]
    /\ UNCHANGED <<prev_device, tensor_gather, object_gather, original,
                   tp_size, world_size, rows>>
    /\ UNCHANGED mgrVars

\* a collective of preprocess_data raises on this rank (communicator
\* failure, an object that cannot be pickled): nothing catches it and
\* nothing already assigned to data is undone
PreprocessRaise(r) ==
    /\ dpc[r] \in {"allgather_tensors", "allgather_tensors_wait",
                    "allgather_object", "allgather_object_wait"}
    /\ dpc' = [dpc EXCEPT ![r] = "raised"]
    /\ UNCHANGED <<data, prev_device, tensor_gather, object_gather, original,
                   tp_size, world_size, rows>>
    /\ UNCHANGED mgrVars

\* lines 110-116, applied to what the inference engine returned for the
\* preprocessed batch (the engine returns its input)
Postprocess(r) ==
    /\ dpc[r] = "preprocessed"
    /\ data' = [data EXCEPT ![r] = PostprocessData(data[r], r, tp_size)]
    /\ dpc' = [dpc EXCEPT ![r] = "postprocessed"]
    /\ UNCHANGED <<prev_device, tensor_gather, object_gather, original,
                   tp_size, world_size, rows>>
    /\ UNCHANGED mgrVars

InitData == MgrGenerating /\ DataInit

NextData ==
    \/ \E r \in Ranks : PreprocessBegin(r)
    \/ \E r \in Ranks : TensorGatherJoin(r)
    \/ \E r \in Ranks : TensorGatherDone(r)
    \/ \E r \in Ranks : ObjectGatherJoin(r)
    \/ \E r \in Ranks : ObjectGatherDone(r)
    \/ \E r \in Ranks : PreprocessRaise(r)
    \/ \E r \in Ranks : Postprocess(r)

SpecData == InitData /\ [][NextData]_vars

\* the statements rank r executes when nothing raises: each rank is a
\* process of its own that keeps running its straight-line code
RankStep(r) ==
    /\ r \in Ranks
    /\ \/ PreprocessBegin(r)
       \/ TensorGatherJoin(r)
       \/ TensorGatherDone(r)
       \/ ObjectGatherJoin(r)
       \/ ObjectGatherDone(r)
       \/ Postprocess(r)

\* whether a collective completes depends on one tensor-parallel group
\* only and not on what the rows hold: the job is one group, one row per
\* rank, batches on the host
InitDataFair ==
    /\ InitData
    /\ world_size = tp_size
    /\ rows = 1
    /\ \A r \in Ranks : data[r].device = "cpu"

SpecDataFair ==
    /\ InitDataFair
    /\ [][NextData]_vars
    /\ \A r \in 0..(MaxWorld - 1) : WF_vars(RankStep(r))

\* ------------------------------------------------------------ specification
Init == MgrInit /\ DataIdle

Next ==
    \/ Construct
    \/ BeginEnter
    \/ EnterStateDict
    \/ EnterWakeUp
    \/ EnterLoad
    \/ EnterDel
    \/ EnterEmptyCache
    \/ EnterRng
    \/ EnterReturn
    \/ EnterRaise
    \/ GenDraw
    \/ ModuleEval
    \/ BodyReturn
    \/ BodyRaise
    \/ TrainDraw
    \/ OptimizerStep
    \/ ExitSleep
    \/ ExitTrain
    \/ ExitEmptyCache
    \/ ExitRng
    \/ ExitReturn
    \/ ExitRaise

Spec == Init /\ [][Next]_vars

\* ------------------------------------------------------------- properties
IsPrefix(a, b) == Len(a) <= Len(b) /\ \A i \in 1..Len(a) : a[i] = b[i]

Calls(sq) == {sq[i] : i \in 1..Len(sq)}

RngCalls == {"get_rng_state", "set_rng_state"}

RaisedBy(call) == raised # None /\ raised[1] = call

\* C1: with a device mesh, whenever the rank is back outside every scope
\* after any number of complete __enter__/__exit__ cycles and any number of
\* draws inside them, the live RNG state is the one it would have with zero
\* cycles (the state live before construction, advanced only by the draws
\* training itself made outside the scopes).
RngRestoredAfterCycles ==
    (device_mesh # None /\ phase = "train") => cuda_rng = zero_cycle_rng

RngRestoredAfterCyclesWitness ==
    /\ device_mesh # None
    /\ phase = "train"
    /\ cycles = 2
    /\ gen_random_states[2] >= 2
    /\ gen_random_states # cuda_rng

\* C2: with a device mesh, when a step of __exit__ before the restoration
\* raises, the restoration has still been done by the time the exception
\* reaches the caller: the state that was live is in the generation slot
\* and the training snapshot is live.
ExitRestoresRngDespiteFailure ==
    (device_mesh # None /\ RaisedBy("__exit__"))
        => /\ gen_random_states = pre_call[1]
           /\ cuda_rng = torch_random_states

\* C7: an exception of the with-body reaches the caller only after the whole
\* exit sequence has run (engine asleep, module in train mode, cache
\* emptied, RNG restored when there is a mesh), and __exit__ never
\* suppresses it: control is never back in training with it pending.
BodyExceptionRunsExitThenPropagates ==
    /\ RaisedBy("with-body")
          => /\ raised[2] = "body"
             /\ log = <<"sleep", "train", "empty_cache">>
                        \o (IF device_mesh # None
                            THEN <<"get_rng_state", "set_rng_state">>
                            ELSE <<>>)
             /\ engine_state = "asleep"
             /\ module_mode = "train"
             /\ device_mesh # None => (/\ cuda_rng = pre_call[2]
                                       /\ gen_random_states = pre_call[1])
    /\ (phase = "train" /\ cycles > 0) => exc = "none"
    /\ (exc = "body" /\ phase = "raised")
          => (RaisedBy("with-body") \/ RaisedBy("__exit__"))

BodyExceptionWitness ==
    /\ RaisedBy("with-body")
    /\ device_mesh # None
    /\ cycles = 1
    /\ gen_random_states # ManualSeed(GenSeed(device_mesh))

\* device memory held by the shards of the training module, the weight
\* mapping, freed blocks still cached, and the engine while it is awake
Resident ==
    ShardCopy
    + (IF actor_weights # None THEN FullCopy ELSE 0)
    + allocator_cache
    + (IF engine_state = "awake" THEN FullCopy ELSE 0)

\* C8 as stated: resident memory never exceeds one full copy plus one
\* sharded copy, and inside the scope the mapping has been released and
\* its blocks reclaimed.
PeakNeverExceedsFullPlusShard ==
    /\ Resident <= FullCopy + ShardCopy
    /\ phase = "gen" => (actor_weights = None /\ allocator_cache = 0)

\* C8 amended: from the return of __enter__ on (with-body, __exit__, and
\* training afterwards) resident memory is at most one full copy plus one
\* sharded copy, the mapping is released and its blocks reclaimed before any
\* generation call; inside __enter__ the mapping and the woken engine are
\* resident together, so the peak there is two full copies plus the shards.
MappingReleasedBeforeGeneration ==
    /\ phase \in {"gen", "exit", "train", "new"}
          => /\ actor_weights = None
             /\ allocator_cache = 0
             /\ Resident <= FullCopy + ShardCopy
    /\ phase = "gen" => {"del", "empty_cache"} \subseteq Calls(log)
    /\ Resident <= FullCopy + FullCopy + ShardCopy

MappingReleasedWitness ==
    /\ phase = "gen"
    /\ cycles = 1
    /\ engine_state = "awake"
    /\ engine_weights = StateDict(1)
    /\ Resident = FullCopy + ShardCopy

\* C9: the calls of every __enter__ happen in the order state_dict, wake_up,
\* load, release of the mapping, reclamation, and only then the RNG switch
\* (with a mesh); once the mapping is released the engine holds the values
\* it was loaded with.
EnterOrder ==
    (phase \in {"enter", "gen"} \/ RaisedBy("__enter__"))
        => /\ IsPrefix(log, <<"state_dict", "wake_up", "load_dtensor_weights",
                              "del", "empty_cache", "get_rng_state",
                              "set_rng_state">>)
           /\ "del" \in Calls(log)
                 => /\ actor_weights = None
                    /\ engine_weights = StateDict(module_version)
           /\ phase = "gen"
                 => Len(log) = (IF device_mesh # None THEN 7 ELSE 5)

EnterOrderWitness ==
    /\ phase = "enter"
    /\ device_mesh # None
    /\ cycles = 1
    /\ module_version = 1
    /\ log = <<"state_dict", "wake_up", "load_dtensor_weights", "del">>

\* C10: without a device mesh no step of __enter__ or __exit__ changes the
\* live RNG state or a snapshot slot or calls the RNG API, the generation
\* slot stays None, and the only exceptions that reach the caller are those
\* of the engine, module and allocator calls or of the with-body.
NoMeshNoRng ==
    [][device_mesh = None
         => /\ gen_random_states' = None
            /\ phase \in {"enter", "exit"}
                  => /\ UNCHANGED rngVars
                     /\ Calls(log') \cap RngCalls = {}
                     /\ phase' = "raised"
                           => raised'[2] \in
                                (EnterMayRaise \cup ExitMayRaise \cup {"body"})]_vars

NoMeshWitness ==
    /\ device_mesh = None
    /\ phase = "train"
    /\ cycles = 2
    /\ cuda_rng # torch_random_states
    /\ cuda_rng # zero_cycle_rng
    /\ gen_random_states = None

\* every field of d, tensor or not, has exactly n rows
AllFieldsHave(d, n) ==
    /\ \A k \in DOMAIN d.batch : Len(d.batch[k]) = n
    /\ \A k \in DOMAIN d.non_tensor_batch : Len(d.non_tensor_batch[k]) = n

\* C3: for T in {1, 2, 4}, a rank that has run preprocess_data and then
\* postprocess_data holds a batch of exactly N rows whose tensor and
\* non-tensor fields (and device) are those of the batch it passed in.
RoundTrip ==
    \A r \in Ranks :
        dpc[r] = "postprocessed"
            => /\ data[r] = original[r]
               /\ AllFieldsHave(data[r], rows)

RoundTripWitness ==
    /\ tp_size = 4
    /\ rows = 2
    /\ \A r \in Ranks : dpc[r] = "postprocessed"
    /\ data[2].batch["input_ids"] = <<Row("input_ids", 2, 1), Row("input_ids", 2, 2)>>
    /\ data[0].device = "cpu"

\* C4: postprocess_data on rank r maps a batch of T*N rows to rows
\* [i*N, (i+1)*N) of every field, i = r mod T, when T > 1 and returns the
\* batch unchanged when T = 1.
PostprocessSelectsOwnChunk ==
    [][\A r \in Ranks :
          (dpc[r] = "preprocessed" /\ dpc'[r] = "postprocessed")
              => LET i == r % tp_size
                     Rows(arr) == SubSeq(arr, i * rows + 1, (i + 1) * rows)
                 IN  /\ AllFieldsHave(data[r], tp_size * rows)
                     /\ IF tp_size > 1
                        THEN /\ \A k \in TensorKeys :
                                   data'[r].batch[k] = Rows(data[r].batch[k])
                             /\ \A k \in NonTensorKeys :
                                   data'[r].non_tensor_batch[k] =
                                       Rows(data[r].non_tensor_batch[k])
                        ELSE data'[r] = data[r]]_vars

PostprocessWitness ==
    /\ tp_size = 2
    /\ world_size = 4
    /\ rows = 2
    /\ dpc[3] = "postprocessed"
    /\ dpc[2] = "preprocessed"
    /\ data[3].non_tensor_batch["uid"] = <<Row("uid", 3, 1), Row("uid", 3, 2)>>
    /\ Len(data[2].batch["input_ids"]) = 4

\* C5: after preprocess_data returns on a rank, every tensor and non-tensor
\* field has T*N rows, the ranks of the group that have returned hold the
\* same batch, and row j of the group's k-th rank is at index k*N + j of
\* every field.
GatheredAligned ==
    \A r \in Ranks :
        dpc[r] = "preprocessed"
            => /\ AllFieldsHave(data[r], tp_size * rows)
               /\ \A q \in GroupMembers(r) :
                     dpc[q] = "preprocessed"
                         => /\ data[q].batch = data[r].batch
                            /\ data[q].non_tensor_batch =
                                   data[r].non_tensor_batch
               /\ \A k \in 0..(tp_size - 1), j \in 1..rows :
                     LET src == (r \div tp_size) * tp_size + k
                     IN  /\ \A f \in TensorKeys :
                               data[r].batch[f][k * rows + j] = Row(f, src, j)
                         /\ \A f \in NonTensorKeys :
                               data[r].non_tensor_batch[f][k * rows + j] =
                                   Row(f, src, j)

GatheredWitness ==
    /\ tp_size = 2
    /\ world_size = 4
    /\ rows = 2
    /\ dpc[2] = "preprocessed"
    /\ dpc[3] = "preprocessed"
    /\ data[3].non_tensor_batch["uid"][3] = Row("uid", 3, 1)
    /\ data[3].batch["attention_mask"][2] = Row("attention_mask", 2, 2)

\* C6: when preprocess_data or postprocess_data has returned or failed on
\* a rank, either every field of its batch has been transformed or none
\* has: tensor and non-tensor fields have the same number of rows.
NeverPartiallyMutated ==
    \A r \in Ranks :
        dpc[r] \in {"preprocessed", "postprocessed", "raised"}
            => \/ AllFieldsHave(data[r], rows)
               \/ AllFieldsHave(data[r], tp_size * rows)

\* the state n draws after st
Drawn(st, n) == <<st[1], st[2] + n>>

\* the generation lineage: the state seeded at construction, advanced by
\* the draws made inside the scopes
GenLineage == Drawn(ManualSeed(device_mesh[1] + 1000), gen_draws)

\* with a mesh, between scopes (no call has raised): the training lineage
\* is live and the generation slot holds the generation lineage as the last
\* scope left it; inside a scope: the generation lineage is live and the
\* training slot holds the training lineage as it was at enter
LineagesWhileNothingRaised ==
    device_mesh # None
        => /\ phase = "train"
                 => /\ cuda_rng = zero_cycle_rng
                    /\ gen_random_states = GenLineage
           /\ phase = "gen"
                 => /\ cuda_rng = GenLineage
                    /\ torch_random_states = zero_cycle_rng

\* C11: with a mesh, in every state reached by paired enter/exit calls
\* exactly one lineage is live: outside a scope (between scopes, or once
\* the with-statement has been left by an exception) the training state is
\* live and the generation slot holds the generation state as the last
\* scope left it; inside a scope the generation state is live and the
\* training slot holds the training state as it was at enter.
OneLineageLive ==
    /\ LineagesWhileNothingRaised
    /\ (device_mesh # None /\ phase = "raised")
          => /\ cuda_rng = zero_cycle_rng
             /\ gen_random_states = GenLineage

\* C12: construction with a mesh leaves the state seeded with
\* (dp local rank + 1000) in the generation slot and the state that was
\* live before construction live again; the initial generation snapshots of
\* two managers are equal exactly when their dp local ranks are equal, so
\* those of local ranks 0, 1, 2, 3 are pairwise distinct.
ConstructionSeedsGeneration ==
    [][(phase = "new" /\ phase' = "train" /\ device_mesh # None)
          => /\ gen_random_states' = <<device_mesh[1] + 1000, 0>>
             /\ cuda_rng' = cuda_rng
             /\ torch_random_states' = cuda_rng
             /\ \A u \in 0..3 :
                   (InitGenStates(<<u>>) = gen_random_states')
                       <=> (u = device_mesh[1])]_vars

ConstructionWitness ==
    /\ phase = "train"
    /\ cycles = 0
    /\ device_mesh = <<3>>
    /\ gen_random_states = <<1003, 0>>
    /\ cuda_rng = <<1000, 1>>
    /\ zero_cycle_rng = cuda_rng

\* C13: every rank that gets through preprocess_data has joined the tensor
\* all-gather and then the object all-gather, whatever its rank and T
\* (T = 1 included), postprocess_data joins no collective, and when the
\* ranks of a tensor-parallel group each call preprocess_data once every
\* call eventually returns, unless a collective raised on a rank of the
\* group.
MatchedCollectives ==
    /\ [](\A r \in Ranks :
            /\ object_gather[r] # None => tensor_gather[r] # None
            /\ dpc[r] \in {"allgather_object", "allgather_object_wait"}
                  => tensor_gather[r] # None
            /\ dpc[r] \in {"preprocessed", "postprocessed"}
                  => (tensor_gather[r] # None /\ object_gather[r] # None))
    /\ [][\A r \in Ranks :
             (dpc[r] = "preprocessed" /\ dpc'[r] = "postprocessed")
                 => UNCHANGED <<tensor_gather, object_gather>>]_vars
    /\ \A r \in 0..(MaxWorld - 1) :
          (r \in Ranks /\ dpc[r] = "idle")
              ~> (r \in Ranks
                    /\ \/ dpc[r] \in {"preprocessed", "postprocessed"}
                       \/ \E q \in GroupMembers(r) : dpc[q] = "raised")

MatchedCollectivesWitness ==
    /\ tp_size = 4
    /\ world_size = 4
    /\ \A r \in Ranks : dpc[r] = "preprocessed"
    /\ \A r \in Ranks : object_gather[r] # None

\* C14: every __exit__ that returns has put the engine into level-1 sleep
\* and the module into train mode, having called sleep before train and
\* before empty_cache; wake_up is only ever called on a sleeping engine and
\* sleep on an awake one, and while no call has raised the engine is awake
\* only from the wake_up of an __enter__ to the sleep of its __exit__.
SleepThenTrain ==
    /\ [][(phase = "exit" /\ phase' # "exit" /\ ~RaisedBy("__exit__")')
            => /\ engine_state' = "asleep"
               /\ sleep_level' = 1
               /\ module_mode' = "train"
               /\ IsPrefix(<<"sleep", "train", "empty_cache">>, log')]_vars
    /\ [][/\ (Len(log') = Len(log) + 1 /\ log'[Len(log')] = "wake_up")
                => (engine_state = "asleep" /\ engine_state' = "awake")
          /\ (Len(log') = Len(log) + 1 /\ log'[Len(log')] = "sleep")
                => (engine_state = "awake" /\ engine_state' = "asleep")]_vars
    /\ [](/\ phase \in {"new", "train"} => engine_state = "asleep"
          /\ phase = "gen" => engine_state = "awake"
          /\ RaisedBy("with-body") => engine_state = "asleep")

SleepThenTrainWitness ==
    /\ phase = "train"
    /\ cycles = 2
    /\ engine_state = "asleep"
    /\ sleep_level = 1
    /\ module_mode = "train"
    /\ module_version = 1
    /\ engine_weights = StateDict(1)

\* C15: in every __enter__ the weight-loading call is made exactly once
\* and its argument is the mapping state_dict() returned: the same
\* parameter names, each once, with the values of the module.
LoadGetsStateDict ==
    /\ (phase = "enter" /\ "load_dtensor_weights" \notin Calls(log))
          => load_calls = <<>>
    /\ (phase = "gen"
          \/ (phase = "enter" /\ "load_dtensor_weights" \in Calls(log)))
          => /\ Len(load_calls) = 1
             /\ DOMAIN load_calls[1] = {"embed", "lm_head"}
             /\ \A n \in DOMAIN load_calls[1] :
                   load_calls[1][n] = module_version
             /\ engine_weights = load_calls[1]

LoadGetsStateDictWitness ==
    /\ phase = "gen"
    /\ cycles = 1
    /\ module_version = 1
    /\ load_calls = <<StateDict(1)>>

\* C16: when a call of __enter__ raises before the RNG switch, the live RNG
\* state and both slots are what they were when __enter__ was called (with
\* a mesh: the training lineage is still live), and the calls made are
\* exactly those that precede the failed one, each once.
FailedEnterKeepsRng ==
    RaisedBy("__enter__")
        => LET order == <<"state_dict", "wake_up", "load_dtensor_weights",
                          "del", "empty_cache">>
           IN  /\ <<cuda_rng, torch_random_states, gen_random_states>>
                      = pre_call
               /\ device_mesh # None => cuda_rng = zero_cycle_rng
               /\ \E i \in 1..Len(order) :
                     /\ order[i] = raised[2]
                     /\ log = SubSeq(order, 1, i - 1)

FailedEnterWitness ==
    /\ RaisedBy("__enter__")
    /\ raised[2] = "load_dtensor_weights"
    /\ device_mesh # None
    /\ cycles = 1
    /\ gen_draws = 2
    /\ gen_random_states # cuda_rng
    /\ engine_state = "awake"

\* C17: the generation state a rank has live inside a scope, and the
\* generation snapshot it holds after an exit, are determined by its dp
\* local rank and the number of draws made inside its scopes, whatever its
\* training state and training draws are; so two ranks of one unit that
\* run the same cycles and in-scope draws have equal generation states, and
\* ranks of different units start from different ones.
GenStateDependsOnUnitOnly ==
    device_mesh # None
        => LET unit == device_mesh[1]
           IN  /\ phase = "gen" => cuda_rng = <<unit + 1000, gen_draws>>
               /\ phase = "train"
                     => gen_random_states = <<unit + 1000, gen_draws>>
               /\ (phase = "train" /\ cycles = 0)
                     => \A u \in 0..MaxDpRank :
                           u # unit
                               => ManualSeed(u + 1000) # gen_random_states

GenStateWitness ==
    /\ phase = "train"
    /\ cycles = 2
    /\ gen_draws = 2
    /\ device_mesh = <<1>>
    /\ gen_random_states = <<1001, 2>>
    /\ cuda_rng = <<1000, 3>>

====
